---- MODULE Spec2Model ----
(***************************************************************************)
(* Credit-spread evaluation (OptionClass.py): the PutSpread / CallSpread   *)
(* constructors, OptionClass.simulateTrades with its makeTrade loop, and   *)
(* the recommendation block of the script.                                 *)
(*                                                                         *)
(* Numbers are exact rationals <<n, d>> in lowest terms with d > 0.  The   *)
(* float64 special values are <<1, 0>> (+inf), <<-1, 0>> (-inf) and        *)
(* <<0, 0>> (NaN).  Zero is unsigned: x/0 takes the sign of x (float64     *)
(* yields -0.0 only for parameter sets with a negative maxloss).  The      *)
(* rounding error of finite float64 results is not modelled.               *)
(***************************************************************************)
EXTENDS Integers, Sequences, FiniteSets, TLC

VARIABLES
    cls,                \* "PUT" (PutSpread) or "CALL" (CallSpread)
    args,               \* the keyword arguments the script passes to the constructor
    self,               \* the object's attribute dictionary: name -> value
    pc,                 \* position of the script
    trades,             \* local of simulateTrades: the drawn prices
    i,                  \* local of simulateTrades: number of draws consumed by the loop
    trade,              \* local of simulateTrades: the draw of the last iteration
    trade_outcome,      \* local of simulateTrades: the result of the last makeTrade
    changing_principal, \* local of simulateTrades: the running principal
    trade_recommendation \* the script's result

vars == <<cls, args, self, pc, trades, i, trade, trade_outcome,
          changing_principal, trade_recommendation>>

\* ------------------------------------------------------------ bounds

MaxTrades == 2
MaxLots == 2

\* ------------------------------------------------------------ numbers

Abs(x) == IF x < 0 THEN -x ELSE x

Sign(x) == IF x < 0 THEN -1 ELSE IF x > 0 THEN 1 ELSE 0

RECURSIVE Gcd(_, _)
Gcd(a, b) == IF b = 0 THEN a ELSE Gcd(b, a % b)

\* the rational n/d in lowest terms; d = 0 gives the float64 special value
R(n, d) ==
    IF d = 0 THEN <<Sign(n), 0>>
    ELSE LET g == Gcd(Abs(n), Abs(d))
             s == Sign(d)
         IN  <<(s * n) \div g, (s * d) \div g>>

Num(n) == <<n, 1>>

NaN == <<0, 0>>
PosInf == <<1, 0>>
NegInf == <<-1, 0>>
Zero == <<0, 1>>
One == <<1, 1>>
Half == <<1, 2>>

IsNaN(a) == a = NaN
IsFinite(a) == a[2] # 0
IsZero(a) == a = Zero

RNeg(a) == <<-a[1], a[2]>>

RAdd(a, b) ==
    IF IsNaN(a) \/ IsNaN(b) THEN NaN
    ELSE IF ~IsFinite(a) THEN (IF ~IsFinite(b) /\ b # a THEN NaN ELSE a)
    ELSE IF ~IsFinite(b) THEN b
    ELSE LET g == Gcd(a[2], b[2])
         IN  R(a[1] * (b[2] \div g) + b[1] * (a[2] \div g), (a[2] \div g) * b[2])

RSub(a, b) == RAdd(a, RNeg(b))

RMul(a, b) ==
    IF IsNaN(a) \/ IsNaN(b) THEN NaN
    ELSE IF ~IsFinite(a) \/ ~IsFinite(b)
         THEN R(Sign(a[1]) * Sign(b[1]), 0)        \* inf * 0 = NaN
    ELSE LET g1 == Gcd(Abs(a[1]), b[2])
             g2 == Gcd(Abs(b[1]), a[2])
         IN  R((a[1] \div g1) * (b[1] \div g2), (a[2] \div g2) * (b[2] \div g1))

\* float64 division as numpy performs it: x/0 is +-inf or NaN, never an exception
RDiv(a, b) ==
    IF IsNaN(a) \/ IsNaN(b) THEN NaN
    ELSE IF ~IsFinite(b) THEN (IF IsFinite(a) THEN Zero ELSE NaN)
    ELSE IF IsZero(b) THEN R(Sign(a[1]), 0)
    ELSE IF ~IsFinite(a) THEN R(Sign(a[1]) * Sign(b[1]), 0)
    ELSE RMul(a, R(b[2] * Sign(b[1]), Abs(b[1])))

\* sign of a - b for finite a, b, by continued fractions (no large products)
RECURSIVE Cmp(_, _)
Cmp(a, b) ==
    LET qa == a[1] \div a[2]
        qb == b[1] \div b[2]
        ra == a[1] % a[2]
        rb == b[1] % b[2]
    IN  IF qa # qb THEN Sign(qa - qb)
        ELSE IF ra = 0 \/ rb = 0 THEN Sign(ra - rb)
        ELSE Cmp(<<b[2], rb>>, <<a[2], ra>>)

\* comparisons as float64 orders them: every comparison with NaN is false
RCmp(a, b) ==
    IF IsFinite(a) /\ IsFinite(b) THEN Cmp(a, b)
    ELSE IF IsFinite(a) THEN -b[1]
    ELSE IF IsFinite(b) THEN a[1]
    ELSE Sign(a[1] - b[1])

RLt(a, b) == ~IsNaN(a) /\ ~IsNaN(b) /\ RCmp(a, b) < 0
RGt(a, b) == RLt(b, a)
RLe(a, b) == ~IsNaN(a) /\ ~IsNaN(b) /\ RCmp(a, b) <= 0
RGe(a, b) == RLe(b, a)

\* floor of 2*(x - mu)/sigma: the half-sigma cell of x
HalfSigmaCell(x, mu, sigma) ==
    LET z == RDiv(RMul(Num(2), RSub(x, mu)), sigma)
    IN  z[1] \div z[2]

\* the standard normal distribution function at z = c/2, in hundredths, for
\* c = -5 .. 5; it is 0 at and below z = -3 and 1 at and above z = 3
PhiTable == <<1, 2, 7, 16, 31, 50, 69, 84, 93, 98, 99>>

\* scipy.stats.norm.cdf(x, mu, sigma), tabulated: the value at the left end
\* of the half-sigma cell of x, saturating to 0 and 1 in the tails
NormCdf(x, mu, sigma) ==
    LET c == HalfSigmaCell(x, mu, sigma)
    IN  IF c <= -6 THEN Zero
        ELSE IF c >= 6 THEN One
        ELSE R(PhiTable[c + 6], 100)

\* a survival function that returns the cdf instead of its complement
NormSfSameAsCdf(x, mu, sigma) == NormCdf(x, mu, sigma)

\* scipy.stats.norm.sf(x, mu, sigma): the complement of the cdf
NormSf(x, mu, sigma) == RSub(One, NormCdf(x, mu, sigma))

\* Python's round(v, 2): to the nearest hundredth, ties to the even one
Round2(v) ==
    IF ~IsFinite(v) THEN v
    ELSE LET q0 == v[1] \div v[2]
             r0 == v[1] % v[2]
             q1 == q0 * 10 + ((r0 * 10) \div v[2])
             r1 == (r0 * 10) % v[2]
             q2 == q1 * 10 + ((r1 * 10) \div v[2])
             r2 == (r1 * 10) % v[2]
             up == \/ r2 > v[2] - r2
                   \/ r2 = v[2] - r2 /\ q2 % 2 = 1
         IN  R(IF up THEN q2 + 1 ELSE q2, 100)

\* ------------------------------------------------------------ constructors

\* OptionClass.__init__
OptionClassInit(a) ==
    [principal |-> a.principal, stockprice |-> a.stockprice,
     sigma |-> a.sigma, numTrades |-> a.numTrades]

\* credit/(100*lots)
CreditPerShare(a) == RDiv(a.credit, RMul(Num(100), a.lots))

\* PutSpread.__init__ up to self.lots: breakeven, the zone probabilities, the arguments
PutSpreadZones(a) ==
    LET s0 == OptionClassInit(a)
        breakeven == RSub(a.shortstrike, CreditPerShare(a))
        pop == NormSf(breakeven, s0.stockprice, s0.sigma)
        p1 == RSub(NormCdf(a.shortstrike, s0.stockprice, s0.sigma),
                   NormCdf(breakeven, s0.stockprice, s0.sigma))
        p2 == RSub(pop, p1)
        q1 == RSub(NormCdf(breakeven, s0.stockprice, s0.sigma),
                   NormCdf(a.longstrike, s0.stockprice, s0.sigma))
        q2 == RSub(NormCdf(breakeven, s0.stockprice, s0.sigma), q1)
    IN  [breakeven |-> breakeven, pop |-> pop, p1 |-> p1, p2 |-> p2,
         q1 |-> q1, q2 |-> q2, shortstrike |-> a.shortstrike,
         longstrike |-> a.longstrike, credit |-> a.credit, lots |-> a.lots] @@ s0

\* CallSpread.__init__ up to self.lots
CallSpreadZones(a) ==
    LET s0 == OptionClassInit(a)
        breakeven == RAdd(a.shortstrike, CreditPerShare(a))
        pop == NormCdf(breakeven, s0.stockprice, s0.sigma)
        p1 == RSub(NormCdf(breakeven, s0.stockprice, s0.sigma),
                   NormCdf(a.shortstrike, s0.stockprice, s0.sigma))
        p2 == RSub(pop, p1)
        q1 == RSub(NormCdf(a.longstrike, s0.stockprice, s0.sigma),
                   NormCdf(breakeven, s0.stockprice, s0.sigma))
        q2 == NormSf(a.longstrike, s0.stockprice, s0.sigma)
    IN  [breakeven |-> breakeven, pop |-> pop, p1 |-> p1, p2 |-> p2,
         q1 |-> q1, q2 |-> q2, shortstrike |-> a.shortstrike,
         longstrike |-> a.longstrike, credit |-> a.credit, lots |-> a.lots] @@ s0

\* the denominator of the slope: a Python float division, which raises
\* ZeroDivisionError when it is zero
PutSlopeDenominator(s) == RSub(s.shortstrike, s.breakeven)
CallSlopeDenominator(s) == RSub(s.breakeven, s.shortstrike)

\* the Kelly odds: numpy float64 operands, so a zero denominator gives inf or NaN
KellyOdds(s, maxloss) ==
    RDiv(RAdd(RMul(RMul(Half, s.credit), s.p1), RMul(s.credit, s.p2)),
         RAdd(RMul(RMul(Half, maxloss), s.q1), RMul(maxloss, s.q2)))

\* PutSpread.__init__ from the slope on: m, maxloss, odds
PutSpreadPayoff(s) ==
    LET m == RDiv(s.credit, PutSlopeDenominator(s))
        maxloss == RMul(RMul(RSub(RSub(s.shortstrike, s.longstrike),
                                  RDiv(s.credit, RMul(Num(100), s.lots))),
                             Num(100)), s.lots)
    IN  [m |-> m, maxloss |-> maxloss, odds |-> KellyOdds(s, maxloss)] @@ s

\* CallSpread.__init__ from the slope on
CallSpreadPayoff(s) ==
    LET m == RDiv(s.credit, CallSlopeDenominator(s))
        maxloss == RMul(RMul(RSub(RSub(s.longstrike, s.shortstrike),
                                  RDiv(s.credit, RMul(Num(100), s.lots))),
                             Num(100)), s.lots)
    IN  [m |-> m, maxloss |-> maxloss, odds |-> KellyOdds(s, maxloss)] @@ s

\* ------------------------------------------------------------ Kelly, EV

\* PutSpread.calculateKelly and CallSpread.calculateKelly (the same body)
calculateKelly(s) ==
    RDiv(RSub(RMul(s.pop, RAdd(s.odds, One)), One), s.odds)

\* OptionClass.calculateEV
calculateEV(s) ==
    RSub(RSub(RAdd(RMul(s.p2, s.credit), RMul(RMul(s.p1, Half), s.credit)),
              RMul(s.q2, s.maxloss)),
         RMul(RMul(s.q1, Half), s.maxloss))

\* ------------------------------------------------------------ makeTrade

\* the value of a local that no branch has assigned
Unbound == <<>>

\* a first guard that leaves the short strike out (> for >=)
PutFullProfitStrict(s, t) == RGt(t, s.shortstrike)

\* the guards of PutSpread.makeTrade, in the order the code tests them
PutFullProfit(s, t) == RGe(t, s.shortstrike)

\* a second guard without its lower end (the long strike)
PutPartialUncapped(s, t) == RLt(t, s.shortstrike)

PutPartial(s, t) == RLt(s.longstrike, t) /\ RLt(t, s.shortstrike)

PutFullLoss(s, t) == RLe(t, s.longstrike)

\* the guards of CallSpread.makeTrade
CallFullProfit(s, t) == RLe(t, s.shortstrike)

CallPartial(s, t) == RLt(s.shortstrike, t) /\ RLt(t, s.longstrike)

CallFullLoss(s, t) == RGe(t, s.longstrike)

\* allocation = self.maxloss / self.principal (principal > 0 in every run)
Allocation(s) == RDiv(s.maxloss, s.principal)

\* the value PutSpread.makeTrade returns
PutOutcome(s, t) ==
    IF PutFullProfit(s, t) THEN RMul(RMul(s.principal, Allocation(s)), s.odds)
    ELSE IF PutPartial(s, t)
         THEN RSub(s.credit, RMul(s.m, RSub(s.shortstrike, t)))
    ELSE IF PutFullLoss(s, t) THEN RNeg(s.maxloss)
    ELSE Unbound

\* the value CallSpread.makeTrade returns
CallOutcome(s, t) ==
    IF CallFullProfit(s, t) THEN RMul(RMul(s.principal, Allocation(s)), s.odds)
    ELSE IF CallPartial(s, t)
         THEN RSub(s.credit, RMul(s.m, RSub(t, s.shortstrike)))
    ELSE IF CallFullLoss(s, t) THEN RNeg(s.maxloss)
    ELSE Unbound

\* a makeTrade that compounds its outcome into self.principal
PutMakeTradeCompounding(s, t) ==
    LET o == PutOutcome(s, t)
    IN  [outcome |-> o,
         self |-> IF o = Unbound THEN s
                  ELSE [s EXCEPT !.principal = RAdd(@, o)]]

\* PutSpread.makeTrade: the returned outcome and the object after the call
PutMakeTrade(s, t) == [outcome |-> PutOutcome(s, t), self |-> s]

\* CallSpread.makeTrade
CallMakeTrade(s, t) == [outcome |-> CallOutcome(s, t), self |-> s]

\* self.makeTrade(trade), dispatched on the class
makeTrade(c, s, t) == IF c = "PUT" THEN PutMakeTrade(s, t) ELSE CallMakeTrade(s, t)

\* ------------------------------------------------------------ simulateTrades

\* a simulateTrades that assigns self.kelly only
SimulateBeginWithoutEV(s) == ("kelly" :> calculateKelly(s)) @@ s

\* self.kelly = self.calculateKelly(); self.ev = self.calculateEV()
SimulateBeginAttrs(s) ==
    LET s1 == ("kelly" :> calculateKelly(s)) @@ s
    IN  ("ev" :> calculateEV(s1)) @@ s1

\* an accumulation that assigns (=) instead of adding (+=)
AccumulateOverwrite(cp, outcome) == outcome

\* changing_principal += trade_outcome
Accumulate(cp, outcome) == RAdd(cp, outcome)

\* ------------------------------------------------------------ the script

\* allocation = round(spreadTrade.maxloss / spreadTrade.principal * 100, 2)
DisplayAllocation(s) == Round2(RMul(RDiv(s.maxloss, s.principal), Num(100)))

\* kelly = round(spreadTrade.kelly*100, 2)
DisplayKelly(s) == Round2(RMul(s.kelly, Num(100)))

\* the condition of the recommendation block
Favorable(s) ==
    /\ RGt(s.pop, Half)
    /\ RGt(DisplayKelly(s), Zero)
    /\ RLt(DisplayAllocation(s), DisplayKelly(s))
    /\ RGt(DisplayAllocation(s), Zero)
    /\ RGt(s.changed_principal, s.principal)

\* ------------------------------------------------------------ inputs

Variants == {"PUT", "CALL"}
Principals == {Num(2000), Num(40000)}
StockPrices == {Num(6), Num(10)}
Sigmas == {Num(1)}
ShortStrikes == {Num(10)}
LongStrikes == {Num(9), Num(10), Num(11)}
Credits == {Num(0), Num(50), Num(99), Num(100)}
LotCounts == {Num(n) : n \in 1..MaxLots}
TradeCounts == {Num(n) : n \in 1..MaxTrades}

\* the prices numpy.random.normal may return: the two strikes, the breakeven,
\* and half-unit points inside and outside the strikes
DrawGrid == {R(17, 2), R(19, 2), R(21, 2), R(23, 2)}
DrawPrices(s) == DrawGrid \cup {s.shortstrike, s.longstrike, s.breakeven}

RECURSIVE SeqsOf(_, _)
SeqsOf(S, n) ==
    IF n = 0 THEN {<<>>}
    ELSE {Append(q, x) : q \in SeqsOf(S, n - 1), x \in S}

NoAttrs == [a \in {} |-> Zero]

\* ------------------------------------------------------------ behaviour

Init ==
    /\ cls \in Variants
    /\ args \in [principal : Principals, stockprice : StockPrices, sigma : Sigmas,
                 numTrades : TradeCounts, shortstrike : ShortStrikes,
                 longstrike : LongStrikes, credit : Credits, lots : LotCounts]
    /\ self = NoAttrs
    /\ pc = "start"
    /\ trades = <<>>
    /\ i = 0
    /\ trade = Unbound
    /\ trade_outcome = Unbound
    /\ changing_principal = Unbound
    /\ trade_recommendation = ""

\* spreadTrade = PutSpread(...): the division of the slope raises when
\* shortstrike - breakeven is zero, and the constructor does not return
PutSpreadNew ==
    /\ pc = "start" /\ cls = "PUT"
    /\ LET s == PutSpreadZones(args)
       IN  IF IsZero(PutSlopeDenominator(s))
           THEN self' = s /\ pc' = "raised"
           ELSE self' = PutSpreadPayoff(s) /\ pc' = "constructed"
    /\ UNCHANGED <<cls, args, trades, i, trade, trade_outcome,
                   changing_principal, trade_recommendation>>

\* spreadTrade = CallSpread(...)
CallSpreadNew ==
    /\ pc = "start" /\ cls = "CALL"
    /\ LET s == CallSpreadZones(args)
       IN  IF IsZero(CallSlopeDenominator(s))
           THEN self' = s /\ pc' = "raised"
           ELSE self' = CallSpreadPayoff(s) /\ pc' = "constructed"
    /\ UNCHANGED <<cls, args, trades, i, trade, trade_outcome,
                   changing_principal, trade_recommendation>>

\* simulateTrades up to the loop: kelly, ev, the running principal, the draws
SimulateBegin ==
    /\ pc = "constructed"
    /\ self' = SimulateBeginAttrs(self)
    /\ changing_principal' = self.principal
    /\ trades' \in SeqsOf(DrawPrices(self), self.numTrades[1])
    /\ i' = 0
    /\ pc' = "loop"
    /\ UNCHANGED <<cls, args, trade, trade_outcome, trade_recommendation>>

\* one iteration of the loop: trade_outcome = self.makeTrade(trade), then the
\* accumulation; a makeTrade that assigned no outcome raises UnboundLocalError
SimulateIter ==
    /\ pc = "loop" /\ i < Len(trades)
    /\ LET r == makeTrade(cls, self, trades[i + 1])
       IN  /\ trade' = trades[i + 1]
           /\ trade_outcome' = r.outcome
           /\ self' = r.self
           /\ i' = i + 1
           /\ IF r.outcome = Unbound
              THEN pc' = "raised" /\ UNCHANGED changing_principal
              ELSE /\ pc' = "loop"
                   /\ changing_principal' = Accumulate(changing_principal, r.outcome)
    /\ UNCHANGED <<cls, args, trades, trade_recommendation>>

\* self.changed_principal = changing_principal
SimulateEnd ==
    /\ pc = "loop" /\ i = Len(trades)
    /\ self' = ("changed_principal" :> changing_principal) @@ self
    /\ pc' = "simulated"
    /\ UNCHANGED <<cls, args, trades, i, trade, trade_outcome,
                   changing_principal, trade_recommendation>>

\* the recommendation block
Recommend ==
    /\ pc = "simulated"
    /\ trade_recommendation' =
          IF Favorable(self) THEN "Enter Trade" ELSE "Do not enter trade"
    /\ pc' = "done"
    /\ UNCHANGED <<cls, args, self, trades, i, trade, trade_outcome,
                   changing_principal>>

Next ==
    \/ PutSpreadNew
    \/ CallSpreadNew
    \/ SimulateBegin
    \/ SimulateIter
    \/ SimulateEnd
    \/ Recommend

Spec == Init /\ [][Next]_vars

\* ------------------------------------------------------------ properties

\* the strike ordering the constructor's contract asks for
ValidOrdering ==
    \/ cls = "PUT" /\ RLt(args.longstrike, args.shortstrike)
    \/ cls = "CALL" /\ RLt(args.shortstrike, args.longstrike)

StrikeWidth ==
    IF cls = "PUT" THEN RSub(args.shortstrike, args.longstrike)
    ELSE RSub(args.longstrike, args.shortstrike)

\* valid ordering, credit > 0, creditPerShare smaller than the strike width
ValidParams ==
    /\ ValidOrdering
    /\ RGt(args.credit, Zero)
    /\ RLt(CreditPerShare(args), StrikeWidth)

\* a draw has gone through makeTrade
Traded == pc \in {"loop", "simulated", "done", "raised"} /\ trade # Unbound

FullProfitGuard(t) ==
    IF cls = "PUT" THEN PutFullProfit(self, t) ELSE CallFullProfit(self, t)
PartialGuard(t) ==
    IF cls = "PUT" THEN PutPartial(self, t) ELSE CallPartial(self, t)
FullLossGuard(t) ==
    IF cls = "PUT" THEN PutFullLoss(self, t) ELSE CallFullLoss(self, t)

\* the price is on the profitable side of the breakeven
ProfitableSide(t) ==
    IF cls = "PUT" THEN RGt(t, self.breakeven) ELSE RLt(t, self.breakeven)
LosingSide(t) ==
    IF cls = "PUT" THEN RLt(t, self.breakeven) ELSE RGt(t, self.breakeven)

\* principal * (maxloss/principal) * odds
FullProfitValue == RMul(RMul(self.principal, Allocation(self)), self.odds)

\* C1: when the script has finished, the recommendation is "Enter Trade" exactly
\* when pop > 0.5, kelly > 0, maxloss/principal < kelly, maxloss/principal > 0 and
\* the final principal exceeds the initial one, all compared on the unrounded
\* values; it is "Do not enter trade" otherwise.
C1_RecommendationOnValues ==
    pc = "done" =>
        /\ trade_recommendation \in {"Enter Trade", "Do not enter trade"}
        /\ trade_recommendation = "Enter Trade" <=>
              /\ RGt(self.pop, Half)
              /\ RGt(self.kelly, Zero)
              /\ RLt(Allocation(self), self.kelly)
              /\ RGt(Allocation(self), Zero)
              /\ RGt(self.changed_principal, self.principal)

\* C2: with a valid strike ordering every drawn price satisfies exactly one of
\* the three makeTrade guards and makeTrade returns a value; a price equal to the
\* short strike takes the full-profit branch, a price equal to the long strike
\* takes the full-loss branch and returns exactly -maxloss.
C2_BranchesPartition ==
    (Traded /\ ValidOrdering) =>
        /\ Cardinality({g \in {1, 2, 3} :
               \/ g = 1 /\ FullProfitGuard(trade)
               \/ g = 2 /\ PartialGuard(trade)
               \/ g = 3 /\ FullLossGuard(trade)}) = 1
        /\ trade_outcome # Unbound
        /\ pc # "raised"
        /\ trade = self.shortstrike =>
              FullProfitGuard(trade) /\ trade_outcome = FullProfitValue
        /\ trade = self.longstrike =>
              FullLossGuard(trade) /\ trade_outcome = RNeg(self.maxloss)

C2_Witness ==
    /\ Traded /\ ValidOrdering /\ cls = "PUT"
    /\ trade = self.longstrike
    /\ trade_outcome = RNeg(self.maxloss)

\* C3: once the constructor has computed them, the four zone probabilities
\* partition the distribution: p1 + p2 + q1 + q2 = 1, p1 + p2 = pop and
\* q1 + q2 = 1 - pop, in both variants.
C3_ZonesPartition ==
    "q2" \in DOMAIN self =>
        /\ RAdd(RAdd(RAdd(self.p1, self.p2), self.q1), self.q2) = One
        /\ RAdd(self.p1, self.p2) = self.pop
        /\ RAdd(self.q1, self.q2) = RSub(One, self.pop)

C3_Witness ==
    /\ pc = "constructed" /\ ValidParams /\ cls = "CALL"
    /\ RGt(self.p1, Zero) /\ RGt(self.p2, Zero)
    /\ RGt(self.q1, Zero) /\ RGt(self.q2, Zero)

AfterConstructor == {"constructed", "loop", "simulated", "done"}
AfterSimulateBegin == {"loop", "simulated", "done"}
ConstructorQuantities ==
    {"breakeven", "pop", "p1", "p2", "q1", "q2", "maxloss", "m", "odds"}
AnalyticQuantities == ConstructorQuantities \cup {"kelly", "ev"}

\* a step changes no analytic quantity that is already defined
AnalyticStable ==
    \A a \in AnalyticQuantities \cap DOMAIN self :
        a \in DOMAIN self' /\ self'[a] = self[a]

C5_ZeroAtBreakeven ==
    (Traded /\ ValidParams) =>
        /\ trade = self.breakeven => trade_outcome = Zero
        /\ ProfitableSide(trade) => RGt(trade_outcome, Zero)
        /\ LosingSide(trade) => RLt(trade_outcome, Zero)

\* C6: for valid parameters no draw pays less than -maxloss, and a draw pays
\* exactly -maxloss if and only if its price is at or beyond the long strike.
C6_LossBounded ==
    (Traded /\ ValidParams) =>
        /\ RGt(self.maxloss, Zero)
        /\ RGe(trade_outcome, RNeg(self.maxloss))
        /\ trade_outcome = RNeg(self.maxloss) <=> FullLossGuard(trade)

C6_Witness ==
    /\ Traded /\ ValidParams /\ cls = "CALL"
    /\ RGt(trade, self.longstrike)
    /\ trade_outcome = RNeg(self.maxloss)

\* the permutations of 1..n
PermsOf(n) == {f \in [1..n -> 1..n] : \A a, b \in 1..n : f[a] = f[b] => a = b}

\* acc plus the payoffs of the prices of seq, added from left to right
RECURSIVE SumOutcomes(_, _)
SumOutcomes(acc, seq) ==
    IF seq = <<>> THEN acc
    ELSE SumOutcomes(RAdd(acc, makeTrade(cls, self, Head(seq)).outcome), Tail(seq))

\* C7: after simulateTrades the final principal is the initial principal plus
\* the payoffs of all draws, whatever the order in which the draws are added;
\* for a single draw in the full-profit zone it is
\* principal + principal*(maxloss/principal)*odds.
C7_FinalIsSum ==
    pc \in {"simulated", "done"} =>
        /\ Len(trades) = self.numTrades[1]
        /\ \A f \in PermsOf(Len(trades)) :
              self.changed_principal =
                  SumOutcomes(args.principal, [k \in 1..Len(trades) |-> trades[f[k]]])
        /\ (Len(trades) = 1 /\ FullProfitGuard(trades[1])) =>
              self.changed_principal = RAdd(args.principal, FullProfitValue)

C7_Witness ==
    /\ pc = "simulated" /\ Len(trades) >= 2
    /\ FullProfitGuard(trades[1]) /\ FullLossGuard(trades[2])
    /\ IsFinite(self.changed_principal)
    /\ self.changed_principal # self.principal

\* C8: an iteration of the loop (one makeTrade call) leaves every attribute of
\* the object as it was, the stored principal is still the initial principal,
\* and the payoff is the one the price has at any other position.
C8_MakeTradeFrame ==
    [][(pc = "loop" /\ i' = i + 1) =>
          /\ self' = self
          /\ self'.principal = args.principal
          /\ trade_outcome' = makeTrade(cls, SimulateBeginAttrs(
                 IF cls = "PUT" THEN PutSpreadPayoff(PutSpreadZones(args))
                 ELSE CallSpreadPayoff(CallSpreadZones(args))), trade').outcome]_vars

C8_Witness ==
    /\ pc = "loop" /\ i = 2 /\ cls = "PUT" /\ ValidParams
    /\ trades[1] = trades[2]
    /\ RGt(trade_outcome, Zero)
    /\ self.principal = args.principal

\* C9: for valid parameters a draw in the full-profit zone pays the credit
\* received, and no draw pays more than the credit received.
C9_FullProfitIsCredit ==
    (Traded /\ ValidParams) =>
        /\ FullProfitGuard(trade) => trade_outcome = self.credit
        /\ RLe(trade_outcome, self.credit)

\* C10: no run raises; when odds is 0 the script still finishes, kelly is not
\* finite, and a kelly that is not finite or not positive gives
\* "Do not enter trade".
C10_DegenerateKellyNoError ==
    /\ pc # "raised"
    /\ (pc = "done" /\ IsZero(self.odds)) => ~IsFinite(self.kelly)
    /\ (pc = "done" /\ (~IsFinite(self.kelly) \/ RLe(self.kelly, Zero))) =>
          trade_recommendation = "Do not enter trade"

====
